---------------------------- MODULE Spec2Model ----------------------------
(***************************************************************************)
(* The Bantam Pratt parser (src/src/core.rs, src/src/parselet.rs,          *)
(* src/src/expression.rs) as a state machine.                              *)
(*                                                                         *)
(* A text is a sequence of one-character strings.  The lexer is the pair   *)
(* (text, index); the parser is the lookahead buffer `read` plus an        *)
(* explicit stack of activation frames of parse_expression_precedence,     *)
(* one frame per call in progress.  A run parses the input text and then,  *)
(* once a tree has been returned, prints it and parses the printed string  *)
(* again with a fresh lexer and parser (phase 2).                          *)
(***************************************************************************)
EXTENDS Integers, Sequences, FiniteSets

VARIABLES
    text,       \* Lexer.text: the characters being scanned
    index,      \* Lexer.index: number of characters already scanned
    read,       \* Parser.read: tokens peeked but not yet consumed
    stack,      \* activation frames of parse_expression_precedence, innermost last
    ret,        \* the expression returned by the call that has just ended
    status,     \* "running", "done" (a tree was returned) or "panic"
    error,      \* which panic ended the parse
    consumed,   \* history: the tokens consumed so far, in order
    phase,      \* 1: parsing the input; 2: parsing the printed tree
    first       \* the tree returned in phase 1

vars == <<text, index, read, stack, ret, status, error, consumed, phase, first>>

----------------------------------------------------------------------------
(* Token model                                                             *)

Punctuators == {"(", ")", ",", "=", "+", "-", "*", "/", "^", "~", "!", "?", ":"}

Letters == {"a", "b", "c", "d", "e", "f", "g"}

OtherChars == {" ", "1"}

\* TokenType::punctuator, read from the character to the kind (Lexer::new
\* builds this inverse map).
PunctuatorType(c) ==
    CASE c = "(" -> "LeftParen"
      [] c = ")" -> "RightParen"
      [] c = "," -> "Comma"
      [] c = "=" -> "Assign"
      [] c = "+" -> "Plus"
      [] c = "-" -> "Minus"
      [] c = "*" -> "Asterisk"
      [] c = "/" -> "Slash"
      [] c = "^" -> "Caret"
      [] c = "~" -> "Tilde"
      [] c = "!" -> "Bang"
      [] c = "?" -> "Question"
      [] c = ":" -> "Colon"

\* TokenType::punctuator, from the kind to its character.
Punctuator(tt) == CHOOSE c \in Punctuators : PunctuatorType(c) = tt

IsAlphabetic(c) == c \in Letters

Token(tt, txt) == [type |-> tt, text |-> txt]

EOFToken == Token("EOF", <<>>)

----------------------------------------------------------------------------
(* Precedence levels                                                       *)

Everything == 0
Assignment == 1
Conditional == 2
Sum == 3
Product == 4
Exponent == 5
Prefix == 6
Postfix == 7
Call == 8

----------------------------------------------------------------------------
(* Lexer                                                                   *)

\* Faulty variant of NameEnd: the name stops after its first letter.
NameEnd_OneLetter(txt, i) == i

RECURSIVE NameEnd(_, _)
\* The inner loop of Lexer::next: the index after the alphabetic run.
NameEnd(txt, i) ==
    IF i < Len(txt) /\ IsAlphabetic(txt[i + 1]) THEN NameEnd(txt, i + 1) ELSE i

RECURSIVE LexerNext_NoPadding(_, _)
\* Faulty variant of LexerNext: at the end of the text the iterator is exhausted
\* (no token) instead of giving EOF.
LexerNext_NoPadding(txt, i) ==
    IF i < Len(txt)
    THEN LET c == txt[i + 1] IN
         IF c \in Punctuators
         THEN [token |-> Token(PunctuatorType(c), <<c>>), index |-> i + 1]
         ELSE IF IsAlphabetic(c)
         THEN LET e == NameEnd(txt, i + 1) IN
              [token |-> Token("Name", SubSeq(txt, i + 1, e)), index |-> e]
         ELSE LexerNext_NoPadding(txt, i + 1)
    ELSE [token |-> Token("None", <<>>), index |-> i]

RECURSIVE LexerNext(_, _)
\* Lexer::next: the token pulled at index i and the index afterwards.
LexerNext(txt, i) ==
    IF i < Len(txt)
    THEN LET c == txt[i + 1] IN
         IF c \in Punctuators
         THEN [token |-> Token(PunctuatorType(c), <<c>>), index |-> i + 1]
         ELSE IF IsAlphabetic(c)
         THEN LET e == NameEnd(txt, i + 1) IN
              [token |-> Token("Name", SubSeq(txt, i + 1, e)), index |-> e]
         ELSE LexerNext(txt, i + 1)
    ELSE [token |-> EOFToken, index |-> i]

----------------------------------------------------------------------------
(* Expressions                                                             *)

NoExpr == [kind |-> "None"]

NameExpression(name) == [kind |-> "Name", name |-> name]

PrefixExpression(op, right) == [kind |-> "Prefix", operator |-> op, right |-> right]

OperatorExpression(left, op, right) ==
    [kind |-> "Operator", left |-> left, operator |-> op, right |-> right]

PostfixExpression(left, op) == [kind |-> "Postfix", left |-> left, operator |-> op]

ConditionalExpression(c, t, e) ==
    [kind |-> "Conditional", condition |-> c, then_arm |-> t, else_arm |-> e]

AssignExpression(name, right) == [kind |-> "Assign", name |-> name, right |-> right]

CallExpression(function, args) == [kind |-> "Call", function |-> function, args |-> args]

\* Faulty variant of PrintPrefix: no parentheses around the prefix expression.
PrintPrefix_NoParens(operator, right) == <<Punctuator(operator)>> \o right

\* PrefixExpression::print, given the printed operand.
PrintPrefix(operator, right) == <<"(">> \o <<Punctuator(operator)>> \o right \o <<")">>

\* OperatorExpression::print, given the printed operands.
PrintOperator(left, operator, right) ==
    <<"(">> \o left \o <<" ">> \o <<Punctuator(operator)>> \o <<" ">> \o right \o <<")">>

\* PostfixExpression::print, given the printed operand.
PrintPostfix(left, operator) == <<"(">> \o left \o <<Punctuator(operator)>> \o <<")">>

\* ConditionalExpression::print, given the printed parts.
PrintConditional(condition, then_arm, else_arm) ==
    <<"(">> \o condition \o <<" ", "?", " ">> \o then_arm \o <<" ", ":", " ">>
    \o else_arm \o <<")">>

\* AssignExpression::print, given the printed right-hand side.
PrintAssign(name, right) == <<"(">> \o name \o <<" ", "=", " ">> \o right \o <<")">>

RECURSIVE PrintExpression(_)
RECURSIVE PrintArgs(_, _)
\* CallExpression::print's loop over the arguments, from argument i on.
PrintArgs(args, i) ==
    IF i > Len(args) THEN <<>>
    ELSE PrintExpression(args[i]) \o (IF i < Len(args) THEN <<",", " ">> ELSE <<>>)
         \o PrintArgs(args, i + 1)

\* Expression::print of each variant.
PrintExpression(e) ==
    CASE e.kind = "Name" -> e.name
      [] e.kind = "Prefix" -> PrintPrefix(e.operator, PrintExpression(e.right))
      [] e.kind = "Operator" ->
            PrintOperator(PrintExpression(e.left), e.operator, PrintExpression(e.right))
      [] e.kind = "Postfix" -> PrintPostfix(PrintExpression(e.left), e.operator)
      [] e.kind = "Conditional" ->
            PrintConditional(PrintExpression(e.condition), PrintExpression(e.then_arm),
                             PrintExpression(e.else_arm))
      [] e.kind = "Assign" -> PrintAssign(e.name, PrintExpression(e.right))
      [] e.kind = "Call" ->
            PrintExpression(e.function) \o <<"(">> \o PrintArgs(e.args, 1) \o <<")">>

----------------------------------------------------------------------------
(* Grammar assembly: the two parselet tables of BantamParser::new          *)

PrefixParselets ==
    [tt \in {"Name", "LeftParen", "Plus", "Minus", "Tilde", "Bang"} |->
        CASE tt = "Name" -> [kind |-> "Name"]
          [] tt = "LeftParen" -> [kind |-> "Group"]
          [] OTHER -> [kind |-> "PrefixOperator", precedence |-> Prefix]]

\* Faulty variant of InfixParselets: + and - registered at Product, * and / at Sum.
InfixParselets_SumProductSwapped ==
    [tt \in {"Assign", "Question", "LeftParen", "Bang",
             "Plus", "Minus", "Asterisk", "Slash", "Caret"} |->
        CASE tt = "Assign" -> [kind |-> "Assign", precedence |-> Assignment]
          [] tt = "Question" -> [kind |-> "Conditional", precedence |-> Conditional]
          [] tt = "LeftParen" -> [kind |-> "Call", precedence |-> Call]
          [] tt = "Bang" -> [kind |-> "PostfixOperator", precedence |-> Postfix]
          [] tt \in {"Plus", "Minus"} ->
                [kind |-> "BinaryOperator", precedence |-> Product, is_right |-> FALSE]
          [] tt \in {"Asterisk", "Slash"} ->
                [kind |-> "BinaryOperator", precedence |-> Sum, is_right |-> FALSE]
          [] tt = "Caret" ->
                [kind |-> "BinaryOperator", precedence |-> Exponent, is_right |-> TRUE]]

\* Faulty variant of InfixParselets: EOF is registered as a postfix operator.
InfixParselets_WithEOF ==
    [tt \in {"Assign", "Question", "LeftParen", "Bang",
             "Plus", "Minus", "Asterisk", "Slash", "Caret", "EOF"} |->
        CASE tt = "Assign" -> [kind |-> "Assign", precedence |-> Assignment]
          [] tt = "Question" -> [kind |-> "Conditional", precedence |-> Conditional]
          [] tt = "LeftParen" -> [kind |-> "Call", precedence |-> Call]
          [] tt \in {"Bang", "EOF"} -> [kind |-> "PostfixOperator", precedence |-> Postfix]
          [] tt \in {"Plus", "Minus"} ->
                [kind |-> "BinaryOperator", precedence |-> Sum, is_right |-> FALSE]
          [] tt \in {"Asterisk", "Slash"} ->
                [kind |-> "BinaryOperator", precedence |-> Product, is_right |-> FALSE]
          [] tt = "Caret" ->
                [kind |-> "BinaryOperator", precedence |-> Exponent, is_right |-> TRUE]]

InfixParselets ==
    [tt \in {"Assign", "Question", "LeftParen", "Bang",
             "Plus", "Minus", "Asterisk", "Slash", "Caret"} |->
        CASE tt = "Assign" -> [kind |-> "Assign", precedence |-> Assignment]
          [] tt = "Question" -> [kind |-> "Conditional", precedence |-> Conditional]
          [] tt = "LeftParen" -> [kind |-> "Call", precedence |-> Call]
          [] tt = "Bang" -> [kind |-> "PostfixOperator", precedence |-> Postfix]
          [] tt \in {"Plus", "Minus"} ->
                [kind |-> "BinaryOperator", precedence |-> Sum, is_right |-> FALSE]
          [] tt \in {"Asterisk", "Slash"} ->
                [kind |-> "BinaryOperator", precedence |-> Product, is_right |-> FALSE]
          [] tt = "Caret" ->
                [kind |-> "BinaryOperator", precedence |-> Exponent, is_right |-> TRUE]]

----------------------------------------------------------------------------
(* Parser primitives on the lookahead buffer                               *)

RECURSIVE LookAhead(_, _, _, _)
\* Parser::look_ahead: pulls tokens until read[distance] exists; gives the
\* buffer and lexer index afterwards and the token at that offset.
LookAhead(txt, rd, idx, distance) ==
    IF distance >= Len(rd)
    THEN LET n == LexerNext(txt, idx) IN
         LookAhead(txt, Append(rd, n.token), n.index, distance)
    ELSE [read |-> rd, index |-> idx, token |-> rd[distance + 1]]

\* Parser::consume: look_ahead(0), then read.remove(0).
Consume(txt, rd, idx) ==
    LET la == LookAhead(txt, rd, idx, 0) IN
    [read |-> Tail(la.read), index |-> la.index, token |-> Head(la.read)]

\* Faulty variant of MatchTok: a token of another kind is dropped from the buffer.
MatchTok_DropsOnMismatch(txt, rd, idx, expected) ==
    LET la == LookAhead(txt, rd, idx, 0)
        c == Consume(txt, la.read, la.index)
    IN [matched |-> la.token.type = expected, read |-> c.read, index |-> c.index,
        token |-> c.token]

\* Parser::match_tok.
MatchTok(txt, rd, idx, expected) ==
    LET la == LookAhead(txt, rd, idx, 0) IN
    IF la.token.type # expected
    THEN [matched |-> FALSE, read |-> la.read, index |-> la.index, token |-> la.token]
    ELSE LET c == Consume(txt, la.read, la.index) IN
         [matched |-> TRUE, read |-> c.read, index |-> c.index, token |-> c.token]

\* Faulty variant of ConsumeExpected: the token is consumed whatever its kind.
ConsumeExpected_Unchecked(txt, rd, idx, expected) ==
    LET c == Consume(txt, rd, idx) IN
    [ok |-> TRUE, read |-> c.read, index |-> c.index, token |-> c.token]

\* Parser::consume_expected: ok is FALSE where the code panics.
ConsumeExpected(txt, rd, idx, expected) ==
    LET la == LookAhead(txt, rd, idx, 0) IN
    IF la.token.type # expected
    THEN [ok |-> FALSE, read |-> la.read, index |-> la.index, token |-> la.token]
    ELSE LET c == Consume(txt, la.read, la.index) IN
         [ok |-> TRUE, read |-> c.read, index |-> c.index, token |-> c.token]

\* Faulty variant of GetPrecedence: it asks look_ahead for offset 1, so two tokens
\* are buffered, and goes by the first of them.
GetPrecedence_PeeksTwo(txt, rd, idx) ==
    LET la == LookAhead(txt, rd, idx, 1) IN
    [read |-> la.read, index |-> la.index, token |-> la.read[1],
     precedence |-> IF la.read[1].type \in DOMAIN InfixParselets
                    THEN InfixParselets[la.read[1].type].precedence
                    ELSE Everything]

\* Faulty variant of GetPrecedence: a token without infix parselet is given the
\* highest precedence instead of the lowest.
GetPrecedence_DefaultCall(txt, rd, idx) ==
    LET la == LookAhead(txt, rd, idx, 0) IN
    [read |-> la.read, index |-> la.index, token |-> la.token,
     precedence |-> IF la.token.type \in DOMAIN InfixParselets
                    THEN InfixParselets[la.token.type].precedence
                    ELSE Call]

\* Parser::get_precedence.
GetPrecedence(txt, rd, idx) ==
    LET la == LookAhead(txt, rd, idx, 0) IN
    [read |-> la.read, index |-> la.index, token |-> la.token,
     precedence |-> IF la.token.type \in DOMAIN InfixParselets
                    THEN InfixParselets[la.token.type].precedence
                    ELSE Everything]

----------------------------------------------------------------------------
(* Precedences handed to the recursive calls                               *)

\* Faulty variant of LoopCondition: the test is not strict.
LoopCondition_NotStrict(precedence, current) == precedence <= current

\* The loop test of parse_expression_precedence: precedence < get_precedence().
LoopCondition(precedence, current) == precedence < current

\* Faulty variant of BinaryOperandPrecedence: is_right is ignored.
BinaryOperandPrecedence_IgnoresIsRight(parselet) == parselet.precedence

\* BinaryOperatorParselet::parse: op_prec, the minimum for the right operand.
BinaryOperandPrecedence(parselet) ==
    parselet.precedence - (IF parselet.is_right THEN 1 ELSE 0)

\* Faulty variant of PrefixOperandPrecedence: the operand is parsed as a full expression.
PrefixOperandPrecedence_Everything(parselet) == Everything

\* PrefixOperatorParselet::parse: the minimum for the operand.
PrefixOperandPrecedence(parselet) == parselet.precedence

\* Faulty variant of ElsePrecedence: the else arm is parsed at Conditional itself.
ElsePrecedence_Conditional == Conditional

\* ConditionalParselet::parse: else_prec.
ElsePrecedence == Conditional - 1

\* AssignParselet::parse: right_prec.
AssignRightPrecedence == Assignment - 1

\* Faulty variant of ArgsPush: the argument is put in front.
ArgsPush_Front(args, expr) == <<expr>> \o args

\* CallParselet::parse: args.push(parser.parse_expression()).
ArgsPush(args, expr) == Append(args, expr)

\* Faulty variant of GroupExpression: the group gets a node of its own.
GroupExpression_Node(expr) == [kind |-> "Prefix", operator |-> "LeftParen", right |-> expr]

\* GroupParselet::parse: the value returned, `expr`.
GroupExpression(expr) == expr

\* AssignParselet::parse: left.as_any().downcast_ref::<NameExpression>() is Some.
IsNameExpression(left) == left.kind = "Name"

----------------------------------------------------------------------------
(* Activation frames                                                       *)

NoToken == Token("None", <<>>)

\* A call of parse_expression_precedence(precedence) about to run.
StartFrame(precedence) ==
    [pc |-> "start", precedence |-> precedence, token |-> NoToken,
     left |-> NoExpr, then_arm |-> NoExpr, args |-> <<>>]

Top == stack[Len(stack)]

\* The stack with its innermost frame replaced by f.
SetTop(f) == [stack EXCEPT ![Len(stack)] = f]

\* The innermost frame becomes f and calls parse_expression_precedence(precedence).
CallParse(f, precedence) == Append(SetTop(f), StartFrame(precedence))

\* Control after a step that goes on with the stack stk.
Continue(stk) == [stack |-> stk, ret |-> NoExpr, status |-> "running", error |-> "none"]

\* Control after a panic: the parse is abandoned, nothing is returned.
Fatal(msg) == [stack |-> <<>>, ret |-> NoExpr, status |-> "panic", error |-> msg]

\* Faulty variant of Return: the outermost call insists that the text ends after the
\* expression.
Return_ExpectsEOF(expr) ==
    IF Len(stack) = 1 /\ LookAhead(text, read, index, 0).token.type # "EOF"
    THEN [stack |-> <<>>, ret |-> NoExpr, status |-> "panic", error |-> "ExpectedToken"]
    ELSE [stack |-> SubSeq(stack, 1, Len(stack) - 1), ret |-> expr,
          status |-> IF Len(stack) = 1 THEN "done" ELSE "running", error |-> "none"]

\* Control after `left` is returned by the innermost call (core.rs: `left`).
Return(expr) ==
    [stack |-> SubSeq(stack, 1, Len(stack) - 1), ret |-> expr,
     status |-> IF Len(stack) = 1 THEN "done" ELSE "running", error |-> "none"]

Apply(ctl) ==
    /\ stack' = ctl.stack
    /\ ret' = ctl.ret
    /\ status' = ctl.status
    /\ error' = ctl.error

\* The parselet has built `expr`: it becomes `left` and the loop goes on.
LeftIs(expr) == Continue(SetTop([Top EXCEPT !.pc = "loop", !.left = expr]))

Running(pc) == status = "running" /\ Len(stack) > 0 /\ Top.pc = pc

\* Faulty variant of AssignResult: a left-hand side that is no name is returned as it
\* is instead of panicking.
AssignResult_KeepsLeft(left, right) ==
    IF IsNameExpression(left)
    THEN LeftIs(AssignExpression(left.name, right))
    ELSE LeftIs(left)

\* AssignParselet::parse after `right`: the downcast of `left` (panic when it
\* is no NameExpression) and the AssignExpression built from its name.
AssignResult(left, right) ==
    IF IsNameExpression(left)
    THEN LeftIs(AssignExpression(left.name, right))
    ELSE Fatal("AssignTarget")

----------------------------------------------------------------------------
(* The steps of parse_expression_precedence and of the parselets           *)

\* core.rs 256-264: consume a token, find its prefix parselet (or panic) and
\* run the parselet up to its first recursive call.
ParsePrefix ==
    /\ Running("start")
    /\ \E c \in {Consume(text, read, index)} :
       LET tt == c.token.type
       IN /\ read' = c.read
          /\ index' = c.index
          /\ consumed' = Append(consumed, c.token)
          /\ IF tt \notin DOMAIN PrefixParselets
             THEN Apply(Fatal("CouldNotParse"))
             ELSE LET prefix == PrefixParselets[tt] IN
                  CASE prefix.kind = "Name" ->
                          Apply(LeftIs(NameExpression(c.token.text)))
                    [] prefix.kind = "PrefixOperator" ->
                          Apply(Continue(CallParse(
                              [Top EXCEPT !.pc = "prefix_operand", !.token = c.token],
                              PrefixOperandPrecedence(prefix))))
                    [] prefix.kind = "Group" ->
                          Apply(Continue(CallParse(
                              [Top EXCEPT !.pc = "group_inner", !.token = c.token],
                              Everything)))
    /\ UNCHANGED <<text, phase, first>>

\* PrefixOperatorParselet::parse after its operand has been parsed.
PrefixOperatorReturn ==
    /\ Running("prefix_operand")
    /\ Apply(LeftIs(PrefixExpression(Top.token.type, ret)))
    /\ UNCHANGED <<text, index, read, consumed, phase, first>>

\* GroupParselet::parse after the inner expression: consume_expected(RightParen).
GroupReturn ==
    /\ Running("group_inner")
    /\ \E c \in {ConsumeExpected(text, read, index, "RightParen")} :
       /\ read' = c.read
       /\ index' = c.index
       /\ IF c.ok
          THEN /\ consumed' = Append(consumed, c.token)
               /\ Apply(LeftIs(GroupExpression(ret)))
          ELSE /\ consumed' = consumed
               /\ Apply(Fatal("ExpectedToken"))
    /\ UNCHANGED <<text, phase, first>>

\* core.rs 267 and 273: the loop test; the call returns `left` when it fails.
LoopTest ==
    /\ Running("loop")
    /\ \E g \in {GetPrecedence(text, read, index)} :
       /\ read' = g.read
       /\ index' = g.index
       /\ IF LoopCondition(Top.precedence, g.precedence)
          THEN Apply(Continue(SetTop([Top EXCEPT !.pc = "infix"])))
          ELSE Apply(Return(Top.left))
    /\ UNCHANGED <<text, consumed, phase, first>>

\* core.rs 268-270: consume the token, take its infix parselet (unwrap) and
\* run the parselet up to its first recursive call.
ParseInfix ==
    /\ Running("infix")
    /\ \E c \in {Consume(text, read, index)} :
       LET tt == c.token.type
       IN IF tt \notin DOMAIN InfixParselets
          THEN /\ read' = c.read
               /\ index' = c.index
               /\ consumed' = Append(consumed, c.token)
               /\ Apply(Fatal("NoInfixParselet"))
          ELSE LET infix == InfixParselets[tt]
                   f == [Top EXCEPT !.token = c.token]
               IN
               CASE infix.kind = "BinaryOperator" ->
                       /\ read' = c.read
                       /\ index' = c.index
                       /\ consumed' = Append(consumed, c.token)
                       /\ Apply(Continue(CallParse([f EXCEPT !.pc = "binary_right"],
                                                   BinaryOperandPrecedence(infix))))
                 [] infix.kind = "PostfixOperator" ->
                       /\ read' = c.read
                       /\ index' = c.index
                       /\ consumed' = Append(consumed, c.token)
                       /\ Apply(LeftIs(PostfixExpression(Top.left, tt)))
                 [] infix.kind = "Conditional" ->
                       /\ read' = c.read
                       /\ index' = c.index
                       /\ consumed' = Append(consumed, c.token)
                       /\ Apply(Continue(CallParse([f EXCEPT !.pc = "cond_then"],
                                                   Everything)))
                 [] infix.kind = "Assign" ->
                       /\ read' = c.read
                       /\ index' = c.index
                       /\ consumed' = Append(consumed, c.token)
                       /\ Apply(Continue(CallParse([f EXCEPT !.pc = "assign_right"],
                                                   AssignRightPrecedence)))
                 [] infix.kind = "Call" ->
                       \* CallParselet::parse: `if !parser.match_tok(RightParen)`
                       \E m \in {MatchTok(text, c.read, c.index, "RightParen")} :
                       /\ read' = m.read
                       /\ index' = m.index
                       /\ IF m.matched
                          THEN /\ consumed' = consumed \o <<c.token, m.token>>
                               /\ Apply(LeftIs(CallExpression(Top.left, <<>>)))
                          ELSE /\ consumed' = Append(consumed, c.token)
                               /\ Apply(Continue(CallParse(
                                      [f EXCEPT !.pc = "call_arg", !.args = <<>>],
                                      Everything)))
    /\ UNCHANGED <<text, phase, first>>

\* BinaryOperatorParselet::parse after the right operand.
BinaryReturn ==
    /\ Running("binary_right")
    /\ Apply(LeftIs(OperatorExpression(Top.left, Top.token.type, ret)))
    /\ UNCHANGED <<text, index, read, consumed, phase, first>>

\* ConditionalParselet::parse after the then arm: consume_expected(Colon),
\* then the else arm.
ConditionalThenReturn ==
    /\ Running("cond_then")
    /\ \E c \in {ConsumeExpected(text, read, index, "Colon")} :
       /\ read' = c.read
       /\ index' = c.index
       /\ IF c.ok
          THEN /\ consumed' = Append(consumed, c.token)
               /\ Apply(Continue(CallParse(
                      [Top EXCEPT !.pc = "cond_else", !.then_arm = ret],
                      ElsePrecedence)))
          ELSE /\ consumed' = consumed
               /\ Apply(Fatal("ExpectedToken"))
    /\ UNCHANGED <<text, phase, first>>

\* ConditionalParselet::parse after the else arm.
ConditionalElseReturn ==
    /\ Running("cond_else")
    /\ Apply(LeftIs(ConditionalExpression(Top.left, Top.then_arm, ret)))
    /\ UNCHANGED <<text, index, read, consumed, phase, first>>

\* AssignParselet::parse after the right-hand side: the downcast of `left`.
AssignReturn ==
    /\ Running("assign_right")
    /\ Apply(AssignResult(Top.left, ret))
    /\ UNCHANGED <<text, index, read, consumed, phase, first>>

\* CallParselet::parse after an argument: push it, then match_tok(Comma) or
\* consume_expected(RightParen).
CallArgReturn ==
    /\ Running("call_arg")
    /\ \E m \in {MatchTok(text, read, index, "Comma")} :
       LET args == ArgsPush(Top.args, ret)
       IN IF m.matched
          THEN /\ read' = m.read
               /\ index' = m.index
               /\ consumed' = Append(consumed, m.token)
               /\ Apply(Continue(CallParse([Top EXCEPT !.args = args], Everything)))
          ELSE \E c \in {ConsumeExpected(text, m.read, m.index, "RightParen")} :
               /\ read' = c.read
               /\ index' = c.index
               /\ IF c.ok
                  THEN /\ consumed' = Append(consumed, c.token)
                       /\ Apply(LeftIs(CallExpression(Top.left, args)))
                  ELSE /\ consumed' = consumed
                       /\ Apply(Fatal("ExpectedToken"))
    /\ UNCHANGED <<text, phase, first>>

\* The tree returned for the input is printed, and the printed string is given
\* to a new Lexer and a new BantamParser (BantamHarness::new, run_test).
Reparse ==
    /\ status = "done"
    /\ phase = 1
    /\ text' = PrintExpression(ret)
    /\ index' = 0
    /\ read' = <<>>
    /\ stack' = <<StartFrame(Everything)>>
    /\ ret' = NoExpr
    /\ status' = "running"
    /\ error' = "none"
    /\ consumed' = <<>>
    /\ phase' = 2
    /\ first' = ret

----------------------------------------------------------------------------
(* Inputs                                                                  *)

\* Longest text over every character.
MaxLen == 3
\* Most infix operators in an operand/operator alternation.
MaxOps == 3
\* Most prefix operators, and most suffixes, around one operand.
MaxUnary == 2
\* Longest text over the grouping characters.
MaxGroupLen == 5
\* Most arguments of a generated call.
MaxArgs == 2
\* Most infix characters in an alternation around the conditional operator.
MaxCondOps == 4

Chars == Punctuators \cup {"a", "b"} \cup OtherChars

RECURSIVE Texts(_, _)
\* Every text over the characters cs of length at most n.
Texts(cs, n) ==
    IF n = 0 THEN {<<>>}
    ELSE LET shorter == Texts(cs, n - 1) IN
         shorter \cup {Append(t, c) : t \in shorter, c \in cs}

RECURSIVE Words(_, _)
\* Every concatenation of at most n of the texts ws.
Words(ws, n) ==
    IF n = 0 THEN {<<>>}
    ELSE LET shorter == Words(ws, n - 1) IN
         shorter \cup {t \o w : t \in shorter, w \in ws}

\* The i-th operand of a generated text: a, b, c, ...
NameAt(i) == <<"a", "b", "c", "d", "e", "f", "g">>[i]

InfixChars == {"=", "+", "-", "*", "/", "^", "?", ":"}

RECURSIVE Alternations(_, _)
\* a o1 b o2 c ...: exactly n infix characters of ops between n + 1 names.
Alternations(ops, n) ==
    IF n = 0 THEN {<<NameAt(1)>>}
    ELSE {t \o <<o, NameAt(n + 1)>> : t \in Alternations(ops, n - 1), o \in ops}

AlternationTexts == UNION {Alternations(InfixChars, n) : n \in 0..MaxOps}

CondChars == {"?", ":", "+", "="}

\* Alternations around the conditional operator.
ConditionalTexts == UNION {Alternations(CondChars, n) : n \in 0..MaxCondOps}

PrefixChars == {"+", "-", "~", "!"}

\* Prefix operators, a name, postfix and call suffixes, and then nothing, one
\* infix operator and a name, or `? b : c`.
UnaryTexts ==
    {pre \o <<"a">> \o suf \o tail :
        pre \in Texts({"-", "!"}, MaxUnary) \cup {<<o>> : o \in PrefixChars},
        suf \in Words({<<"!">>, <<"(", ")">>}, MaxUnary),
        tail \in {<<>>, <<"?", "b", ":", "c">>}
                 \cup {<<o, "b">> : o \in InfixChars \ {":"}}}

GroupChars == {"a", "b", "(", ")", ",", "+"}

GroupTexts == Texts(GroupChars, MaxGroupLen)

ArgTexts ==
    {<<"b">>, <<"c", "+", "d">>, <<"e", "?", "f", ":", "g">>, <<"(", "b", ")">>,
     <<"-", "c">>, <<"b", "(", ")">>}

RECURSIVE ArgLists(_)
\* Exactly n arguments separated by ", ".
ArgLists(n) ==
    IF n = 0 THEN {<<>>}
    ELSE IF n = 1 THEN ArgTexts
    ELSE {l \o <<",", " ">> \o x : l \in ArgLists(n - 1), x \in ArgTexts}

\* a(args), alone or followed by a suffix.
CallTexts ==
    {<<"a", "(">> \o l \o <<")">> \o suf :
        l \in UNION {ArgLists(n) : n \in 0..MaxArgs},
        suf \in {<<>>, <<"(", "a", ")">>, <<" ", "+", " ", "a">>, <<"!">>,
                 <<" ", "=", " ", "a">>}}

BinaryChars == {"+", "-", "*", "/", "^"}

\* A parenthesised operand beside binary, prefix and postfix operators.
GroupedTexts ==
    {<<"a", p, "(", "b", q, "c", ")">> : p \in BinaryChars, q \in BinaryChars}
    \cup {<<"(", "a", p, "b", ")", q, "c">> : p \in BinaryChars, q \in BinaryChars}
    \cup {<<"a", p, "(", "b", "+", "c", ")", r, "d">> : p \in BinaryChars, r \in BinaryChars}
    \cup {<<"(", o, "a", ")", "!">> : o \in PrefixChars}
    \cup {<<o, "(", "a", p, "b", ")">> : o \in PrefixChars, p \in BinaryChars}

\* Assignments beside parentheses.
AssignTexts ==
    {<<"(", "a", ")", "=", "b">>,
     <<"(", "(", "a", ")", ")", "=", "b">>,
     <<"(", "a", "=", "b", ")", "=", "c">>,
     <<"a", "=", "(", "b", "=", "c", ")">>,
     <<"a", "(", "b", "=", "c", ",", "d", "=", "e", ")">>,
     <<"(", "a", "+", "b", ")", "=", "c">>,
     <<"a", "b", "=", "c">>}

\* The cases of tests/bantam_test.rs: the input and the string the test expects.
TestCases ==
    {
      \* a()  ->  a()
      [input |-> <<"a", "(", ")">>,
       expected |-> <<"a", "(", ")">>],
      \* a(b)  ->  a(b)
      [input |-> <<"a", "(", "b", ")">>,
       expected |-> <<"a", "(", "b", ")">>],
      \* a(b, c)  ->  a(b, c)
      [input |-> <<"a", "(", "b", ",", " ", "c", ")">>,
       expected |-> <<"a", "(", "b", ",", " ", "c", ")">>],
      \* a(b)(c)  ->  a(b)(c)
      [input |-> <<"a", "(", "b", ")", "(", "c", ")">>,
       expected |-> <<"a", "(", "b", ")", "(", "c", ")">>],
      \* a(b) + c(d)  ->  (a(b) + c(d))
      [input |-> <<"a", "(", "b", ")", " ", "+", " ", "c", "(", "d", ")">>,
       expected |-> <<"(", "a", "(", "b", ")", " ", "+", " ", "c", "(", "d", ")", ")">>],
      \* a(b ? c : d, e + f)  ->  a((b ? c : d), (e + f))
      [input |-> <<"a", "(", "b", " ", "?", " ", "c", " ", ":", " ", "d", ",", " ", "e", " ", "+", " ", "f", ")">>,
       expected |-> <<"a", "(", "(", "b", " ", "?", " ", "c", " ", ":", " ", "d", ")", ",", " ", "(", "e", " ", "+", " ", "f", ")", ")">>],
      \* ~!-+a  ->  (~(!(-(+a))))
      [input |-> <<"~", "!", "-", "+", "a">>,
       expected |-> <<"(", "~", "(", "!", "(", "-", "(", "+", "a", ")", ")", ")", ")">>],
      \* a!!!  ->  (((a!)!)!)
      [input |-> <<"a", "!", "!", "!">>,
       expected |-> <<"(", "(", "(", "a", "!", ")", "!", ")", "!", ")">>],
      \* -a * b  ->  ((-a) * b)
      [input |-> <<"-", "a", " ", "*", " ", "b">>,
       expected |-> <<"(", "(", "-", "a", ")", " ", "*", " ", "b", ")">>],
      \* !a + b  ->  ((!a) + b)
      [input |-> <<"!", "a", " ", "+", " ", "b">>,
       expected |-> <<"(", "(", "!", "a", ")", " ", "+", " ", "b", ")">>],
      \* ~a ^ b  ->  ((~a) ^ b)
      [input |-> <<"~", "a", " ", "^", " ", "b">>,
       expected |-> <<"(", "(", "~", "a", ")", " ", "^", " ", "b", ")">>],
      \* -a!  ->  (-(a!))
      [input |-> <<"-", "a", "!">>,
       expected |-> <<"(", "-", "(", "a", "!", ")", ")">>],
      \* !a!  ->  (!(a!))
      [input |-> <<"!", "a", "!">>,
       expected |-> <<"(", "!", "(", "a", "!", ")", ")">>],
      \* a = b = c  ->  (a = (b = c))
      [input |-> <<"a", " ", "=", " ", "b", " ", "=", " ", "c">>,
       expected |-> <<"(", "a", " ", "=", " ", "(", "b", " ", "=", " ", "c", ")", ")">>],
      \* a + b - c  ->  ((a + b) - c)
      [input |-> <<"a", " ", "+", " ", "b", " ", "-", " ", "c">>,
       expected |-> <<"(", "(", "a", " ", "+", " ", "b", ")", " ", "-", " ", "c", ")">>],
      \* a * b / c  ->  ((a * b) / c)
      [input |-> <<"a", " ", "*", " ", "b", " ", "/", " ", "c">>,
       expected |-> <<"(", "(", "a", " ", "*", " ", "b", ")", " ", "/", " ", "c", ")">>],
      \* a ^ b ^ c  ->  (a ^ (b ^ c))
      [input |-> <<"a", " ", "^", " ", "b", " ", "^", " ", "c">>,
       expected |-> <<"(", "a", " ", "^", " ", "(", "b", " ", "^", " ", "c", ")", ")">>],
      \* a ? b : c ? d : e  ->  (a ? b : (c ? d : e))
      [input |-> <<"a", " ", "?", " ", "b", " ", ":", " ", "c", " ", "?", " ", "d", " ", ":", " ", "e">>,
       expected |-> <<"(", "a", " ", "?", " ", "b", " ", ":", " ", "(", "c", " ", "?", " ", "d", " ", ":", " ", "e", ")", ")">>],
      \* a ? b ? c : d : e  ->  (a ? (b ? c : d) : e)
      [input |-> <<"a", " ", "?", " ", "b", " ", "?", " ", "c", " ", ":", " ", "d", " ", ":", " ", "e">>,
       expected |-> <<"(", "a", " ", "?", " ", "(", "b", " ", "?", " ", "c", " ", ":", " ", "d", ")", " ", ":", " ", "e", ")">>],
      \* a + b ? c * d : e / f  ->  ((a + b) ? (c * d) : (e / f))
      [input |-> <<"a", " ", "+", " ", "b", " ", "?", " ", "c", " ", "*", " ", "d", " ", ":", " ", "e", " ", "/", " ", "f">>,
       expected |-> <<"(", "(", "a", " ", "+", " ", "b", ")", " ", "?", " ", "(", "c", " ", "*", " ", "d", ")", " ", ":", " ", "(", "e", " ", "/", " ", "f", ")", ")">>],
      \* a + (b + c) + d  ->  ((a + (b + c)) + d)
      [input |-> <<"a", " ", "+", " ", "(", "b", " ", "+", " ", "c", ")", " ", "+", " ", "d">>,
       expected |-> <<"(", "(", "a", " ", "+", " ", "(", "b", " ", "+", " ", "c", ")", ")", " ", "+", " ", "d", ")">>],
      \* a ^ (b + c)  ->  (a ^ (b + c))
      [input |-> <<"a", " ", "^", " ", "(", "b", " ", "+", " ", "c", ")">>,
       expected |-> <<"(", "a", " ", "^", " ", "(", "b", " ", "+", " ", "c", ")", ")">>],
      \* (!a)!  ->  ((!a)!)
      [input |-> <<"(", "!", "a", ")", "!">>,
       expected |-> <<"(", "(", "!", "a", ")", "!", ")">>],
      \* abba  ->  abba
      [input |-> <<"a", "b", "b", "a">>,
       expected |-> <<"a", "b", "b", "a">>],
      \* a = b + c * d ^ e - f / g  ->  (a = ((b + (c * (d ^ e))) - (f / g)))
      [input |-> <<"a", " ", "=", " ", "b", " ", "+", " ", "c", " ", "*", " ", "d", " ", "^", " ", "e", " ", "-", " ", "f", " ", "/", " ", "g">>,
       expected |-> <<"(", "a", " ", "=", " ", "(", "(", "b", " ", "+", " ", "(", "c", " ", "*", " ", "(", "d", " ", "^", " ", "e", ")", ")", ")", " ", "-", " ", "(", "f", " ", "/", " ", "g", ")", ")", ")">>]
    }

TestInputs == {c.input : c \in TestCases}

\* The input is drawn from one of the families.
IsInput(t) ==
    \/ t \in Texts(Chars, MaxLen)
    \/ t \in AlternationTexts
    \/ t \in ConditionalTexts
    \/ t \in UnaryTexts
    \/ t \in GroupTexts
    \/ t \in GroupedTexts
    \/ t \in AssignTexts
    \/ t \in CallTexts
    \/ t \in TestInputs

----------------
(* Specification                                                           *)

Init ==
    /\ IsInput(text)
    /\ index = 0
    /\ read = <<>>
    /\ stack = <<StartFrame(Everything)>>
    /\ ret = NoExpr
    /\ status = "running"
    /\ error = "none"
    /\ consumed = <<>>
    /\ phase = 1
    /\ first = NoExpr

Next ==
    \/ ParsePrefix
    \/ PrefixOperatorReturn
    \/ GroupReturn
    \/ LoopTest
    \/ ParseInfix
    \/ BinaryReturn
    \/ ConditionalThenReturn
    \/ ConditionalElseReturn
    \/ AssignReturn
    \/ CallArgReturn
    \/ Reparse

Spec == Init /\ [][Next]_vars

----------------------------------------------------------------------------
(* Vocabulary of the properties                                            *)

RECURSIVE TokensFrom(_, _)
\* The tokens a lexer over txt yields from index i up to the first EOF.
TokensFrom(txt, i) ==
    LET n == LexerNext(txt, i) IN
    IF n.token.type = "EOF" THEN <<>> ELSE <<n.token>> \o TokensFrom(txt, n.index)

\* The tokens of the text being parsed.
TextTokens == TokensFrom(text, 0)

Returned == status = "done"

Panicked == status = "panic"

Finished == Returned \/ Panicked

\* n o n o ... n: names at the odd places, operators of the kinds ops at the
\* even places, at least one operator.
IsChain(ts, ops) ==
    /\ Len(ts) >= 3
    /\ Len(ts) % 2 = 1
    /\ \A i \in 1..Len(ts) :
          IF i % 2 = 1 THEN ts[i].type = "Name" ELSE ts[i].type \in ops

RECURSIVE LeftNested(_)
\* (((x1 o1 x2) o2 x3) ...) of a chain.
LeftNested(ts) ==
    IF Len(ts) = 1 THEN NameExpression(ts[1].text)
    ELSE OperatorExpression(LeftNested(SubSeq(ts, 1, Len(ts) - 2)),
                            ts[Len(ts) - 1].type,
                            NameExpression(ts[Len(ts)].text))

RECURSIVE RightNested(_)
\* (x1 o1 (x2 o2 (x3 ...))) of a chain.
RightNested(ts) ==
    IF Len(ts) = 1 THEN NameExpression(ts[1].text)
    ELSE OperatorExpression(NameExpression(ts[1].text), ts[2].type,
                            RightNested(SubSeq(ts, 3, Len(ts))))

RECURSIVE RightNestedAssign(_)
\* (x1 = (x2 = (x3 ...))) of a chain of assignments.
RightNestedAssign(ts) ==
    IF Len(ts) = 1 THEN NameExpression(ts[1].text)
    ELSE AssignExpression(ts[1].text, RightNestedAssign(SubSeq(ts, 3, Len(ts))))

\* The levels the binary operators are said to have: Sum < Product < Exponent.
Level(tt) ==
    CASE tt \in {"Plus", "Minus"} -> 1
      [] tt \in {"Asterisk", "Slash"} -> 2
      [] tt = "Caret" -> 3

BinaryTypes == {"Plus", "Minus", "Asterisk", "Slash", "Caret"}

N(c) == NameExpression(<<c>>)

Op(l, o, r) == OperatorExpression(l, PunctuatorType(o), r)

----------------------------------------------------------------------------
(* C1: precedence between neighbouring binary operators                    *)

MixedInput ==
    <<"a", " ", "=", " ", "b", " ", "+", " ", "c", " ", "*", " ", "d", " ", "^",
      " ", "e", " ", "-", " ", "f", " ", "/", " ", "g">>

MixedTree ==
    AssignExpression(<<"a">>,
        Op(Op(N("b"), "+", Op(N("c"), "*", Op(N("d"), "^", N("e")))),
           "-",
           Op(N("f"), "/", N("g"))))

\* C1: a parse of `x p y q z` (x, y, z names, p and q binary operators of
\* different levels) ends by returning (x p (y q z)) when p is the lower and
\* ((x p y) q z) when p is the higher; `x = y q z` returns (x = (y q z)); and
\* `a = b + c * d ^ e - f / g` returns (a = ((b + (c * (d ^ e))) - (f / g))).
C1_Precedence ==
    Finished =>
        LET ts == TextTokens
            x == NameExpression(ts[1].text)
            y == NameExpression(ts[3].text)
            z == NameExpression(ts[5].text)
            p == ts[2].type
            q == ts[4].type
        IN /\ (Len(ts) = 5 /\ IsChain(ts, BinaryTypes) /\ Level(p) < Level(q))
                => (Returned /\ ret = OperatorExpression(x, p, OperatorExpression(y, q, z)))
           /\ (Len(ts) = 5 /\ IsChain(ts, BinaryTypes) /\ Level(q) < Level(p))
                => (Returned /\ ret = OperatorExpression(OperatorExpression(x, p, y), q, z))
           /\ (Len(ts) = 5 /\ IsChain(ts, BinaryTypes \cup {"Assign"})
               /\ p = "Assign" /\ q \in BinaryTypes)
                => (Returned /\ ret = AssignExpression(ts[1].text, OperatorExpression(y, q, z)))
           /\ text = MixedInput => (Returned /\ ret = MixedTree)

\* `a * b + c` has returned ((a * b) + c).
C1_Witness ==
    /\ Returned
    /\ text = <<"a", "*", "b", "+", "c">>
    /\ ret = Op(Op(N("a"), "*", N("b")), "+", N("c"))

\* `a = b + c * d ^ e - f / g` has returned its tree.
C1_WitnessMixed == Returned /\ text = MixedInput /\ ret = MixedTree

----------------------------------------------------------------------------
(* C2: left-associativity                                                  *)

\* C2: a parse of a chain of names joined only by + and -, or only by * and /,
\* ends by returning the tree nested to the left, (((x1 o1 x2) o2 x3) ...).
C2_LeftAssociative ==
    (Finished /\ (\/ IsChain(TextTokens, {"Plus", "Minus"})
                  \/ IsChain(TextTokens, {"Asterisk", "Slash"})))
        => (Returned /\ ret = LeftNested(TextTokens))

\* `a + b - c + d` has returned (((a + b) - c) + d).
C2_Witness ==
    /\ Returned
    /\ text = <<"a", "+", "b", "-", "c", "+", "d">>
    /\ ret = Op(Op(Op(N("a"), "+", N("b")), "-", N("c")), "+", N("d"))

----------------------------------------------------------------------------
(* C3: right-associativity                                                 *)

\* C3: a parse of a chain of names joined only by ^ ends by returning the tree
\* nested to the right, (x1 ^ (x2 ^ (x3 ...))), and a chain joined only by =
\* ends by returning (x1 = (x2 = (x3 ...))).
C3_RightAssociative ==
    /\ (Finished /\ IsChain(TextTokens, {"Caret"}))
          => (Returned /\ ret = RightNested(TextTokens))
    /\ (Finished /\ IsChain(TextTokens, {"Assign"}))
          => (Returned /\ ret = RightNestedAssign(TextTokens))

\* `a ^ b ^ c ^ d` has returned (a ^ (b ^ (c ^ d))).
C3_Witness ==
    /\ Returned
    /\ text = <<"a", "^", "b", "^", "c", "^", "d">>
    /\ ret = Op(N("a"), "^", Op(N("b"), "^", Op(N("c"), "^", N("d"))))

----------------------------------------------------------------------------
(* C4: prefix and postfix operators                                        *)

PrefixTypes == {"Plus", "Minus", "Tilde", "Bang"}

RECURSIVE PrefixCount(_)
\* How many prefix operators the tokens start with.
PrefixCount(ts) ==
    IF Len(ts) > 0 /\ ts[1].type \in PrefixTypes THEN 1 + PrefixCount(Tail(ts)) ELSE 0

RECURSIVE SuffixEnd(_, _)
\* The place after the suffixes `!` and `()` that start at place i.
SuffixEnd(ts, i) ==
    IF i <= Len(ts) /\ ts[i].type = "Bang" THEN SuffixEnd(ts, i + 1)
    ELSE IF i + 1 <= Len(ts) /\ ts[i].type = "LeftParen" /\ ts[i + 1].type = "RightParen"
    THEN SuffixEnd(ts, i + 2)
    ELSE i

RECURSIVE WithSuffixes(_, _, _, _)
\* e with the suffixes at places i .. j - 1 applied from left to right.
WithSuffixes(e, ts, i, j) ==
    IF i >= j THEN e
    ELSE IF ts[i].type = "Bang"
    THEN WithSuffixes(PostfixExpression(e, "Bang"), ts, i + 1, j)
    ELSE WithSuffixes(CallExpression(e, <<>>), ts, i + 2, j)

RECURSIVE WithPrefixes(_, _, _, _)
\* e under the prefix operators at places i .. n, the first outermost.
WithPrefixes(e, ts, i, n) ==
    IF i > n THEN e
    ELSE PrefixExpression(ts[i].type, WithPrefixes(e, ts, i + 1, n))

\* The operand of the unary form: prefixes, a name and its suffixes.
UnaryOperand(ts) ==
    LET n == PrefixCount(ts)
        j == SuffixEnd(ts, n + 2)
    IN WithPrefixes(WithSuffixes(NameExpression(ts[n + 1].text), ts, n + 2, j), ts, 1, n)

\* The tokens after the operand of the unary form.
UnaryRest(ts) ==
    LET j == SuffixEnd(ts, PrefixCount(ts) + 2) IN SubSeq(ts, j, Len(ts))

StartsUnary(ts) ==
    LET n == PrefixCount(ts) IN Len(ts) > n /\ ts[n + 1].type = "Name"

\* C4: a parse of prefix operators, a name and suffixes `!` and `()` returns
\* the suffixes applied to the name from left to right under the prefix
\* operators nested to the right; followed by a binary operator and a name it
\* returns (operand op name); followed by `? b : c` it returns
\* (operand ? b : c); followed by `= b` it panics unless the operand is a bare
\* name: the operand never takes in a binary, conditional or assignment
\* operator.
C4_Unary ==
    (Finished /\ StartsUnary(TextTokens)) =>
        LET ts == TextTokens
            operand == UnaryOperand(ts)
            rest == UnaryRest(ts)
        IN /\ rest = <<>> => (Returned /\ ret = operand)
           /\ (Len(rest) = 2 /\ rest[1].type \in BinaryTypes /\ rest[2].type = "Name")
                => (Returned /\ ret = OperatorExpression(operand, rest[1].type,
                                                         NameExpression(rest[2].text)))
           /\ (Len(rest) = 4 /\ rest[1].type = "Question" /\ rest[2].type = "Name"
               /\ rest[3].type = "Colon" /\ rest[4].type = "Name")
                => (Returned /\ ret = ConditionalExpression(operand,
                                          NameExpression(rest[2].text),
                                          NameExpression(rest[4].text)))
           /\ (Len(rest) = 2 /\ rest[1].type = "Assign" /\ rest[2].type = "Name")
                => IF operand.kind = "Name"
                   THEN Returned /\ ret = AssignExpression(operand.name,
                                                           NameExpression(rest[2].text))
                   ELSE Panicked /\ error = "AssignTarget"

\* `-a! * b` has returned ((-(a!)) * b).
C4_Witness ==
    /\ Returned
    /\ text = <<"-", "a", "!", "*", "b">>
    /\ ret = Op(PrefixExpression("Minus", PostfixExpression(N("a"), "Bang")), "*", N("b"))

----------------------------------------------------------------------------
(* C5: the conditional operator                                            *)

\* The places of ts that hold a token of kind tt.
Places(ts, tt) == {i \in 1..Len(ts) : ts[i].type = tt}

\* A name, or two names joined by one binary operator.
IsSimple(ts) ==
    \/ Len(ts) = 1 /\ ts[1].type = "Name"
    \/ Len(ts) = 3 /\ IsChain(ts, BinaryTypes)

SimpleTree(ts) == LeftNested(ts)

\* x1 ? y1 : x2 ? y2 : ... : xn, conditionals in the else position.
IsElseChain(ts) ==
    /\ Len(ts) >= 5
    /\ Len(ts) % 4 = 1
    /\ \A i \in 1..Len(ts) :
          ts[i].type = (CASE i % 4 = 2 -> "Question" [] i % 4 = 0 -> "Colon" [] OTHER -> "Name")

RECURSIVE ElseNested(_)
\* (x1 ? y1 : (x2 ? y2 : ...)).
ElseNested(ts) ==
    IF Len(ts) = 1 THEN NameExpression(ts[1].text)
    ELSE ConditionalExpression(NameExpression(ts[1].text), NameExpression(ts[3].text),
                               ElseNested(SubSeq(ts, 5, Len(ts))))

\* x1 ? x2 ? ... ? xk : ... : y2 : y1, conditionals in the then position.
IsThenChain(ts) ==
    LET k == (Len(ts) - 1) \div 4 IN
    /\ Len(ts) >= 5
    /\ Len(ts) % 4 = 1
    /\ \A i \in 1..Len(ts) :
          ts[i].type = (IF i % 2 = 1 THEN "Name"
                        ELSE IF i <= 2 * k THEN "Question" ELSE "Colon")

RECURSIVE ThenNested(_)
\* (x1 ? (x2 ? ... : y2) : y1).
ThenNested(ts) ==
    IF Len(ts) = 1 THEN NameExpression(ts[1].text)
    ELSE ConditionalExpression(NameExpression(ts[1].text),
                               ThenNested(SubSeq(ts, 3, Len(ts) - 2)),
                               NameExpression(ts[Len(ts)].text))

\* C5: a parse of `A ? B : C`, each of A, B, C a name or two names joined by
\* a binary operator, returns (A ? B : C) with the three parts grouped; a
\* chain of conditionals in the else position returns the tree nested to the
\* right; a chain in the then position returns each conditional inside the
\* then arm of the one before; `x ? y = z : w` returns (x ? (y = z) : w), the
\* then arm being a full expression; and `x ? y : z = w` panics, the else arm
\* stopping before `=`.
C5_Conditional ==
    Finished =>
        LET ts == TextTokens
            q == CHOOSE i \in Places(ts, "Question") : TRUE
            c == CHOOSE i \in Places(ts, "Colon") : TRUE
            A == SubSeq(ts, 1, q - 1)
            B == SubSeq(ts, q + 1, c - 1)
            C == SubSeq(ts, c + 1, Len(ts))
        IN /\ (/\ Cardinality(Places(ts, "Question")) = 1
               /\ Cardinality(Places(ts, "Colon")) = 1
               /\ q < c
               /\ IsSimple(A) /\ IsSimple(B) /\ IsSimple(C))
                => (Returned /\ ret = ConditionalExpression(SimpleTree(A), SimpleTree(B),
                                                           SimpleTree(C)))
           /\ IsElseChain(ts) => (Returned /\ ret = ElseNested(ts))
           /\ IsThenChain(ts) => (Returned /\ ret = ThenNested(ts))
           /\ (Len(ts) = 7 /\ IsChain(ts, {"Question", "Assign", "Colon"})
               /\ ts[2].type = "Question" /\ ts[4].type = "Assign" /\ ts[6].type = "Colon")
                => (Returned /\ ret = ConditionalExpression(NameExpression(ts[1].text),
                        AssignExpression(ts[3].text, NameExpression(ts[5].text)),
                        NameExpression(ts[7].text)))
           /\ (Len(ts) = 7 /\ IsChain(ts, {"Question", "Assign", "Colon"})
               /\ ts[2].type = "Question" /\ ts[4].type = "Colon" /\ ts[6].type = "Assign")
                => (Panicked /\ error = "AssignTarget")

\* `a ? b : c ? d : e` has returned (a ? b : (c ? d : e)).
C5_Witness ==
    /\ Returned
    /\ text = <<"a", "?", "b", ":", "c", "?", "d", ":", "e">>
    /\ ret = ConditionalExpression(N("a"), N("b"),
                                   ConditionalExpression(N("c"), N("d"), N("e")))

----------------------------------------------------------------------------
(* C6: function calls                                                      *)

RECURSIVE ClosingPlace(_, _, _)
\* The place of the `)` that closes the parenthesis open before place i
\* (depth counts the parentheses open at i); 0 when there is none.
ClosingPlace(ts, i, depth) ==
    IF i > Len(ts) THEN 0
    ELSE IF ts[i].type = "RightParen"
    THEN (IF depth = 1 THEN i ELSE ClosingPlace(ts, i + 1, depth - 1))
    ELSE IF ts[i].type = "LeftParen" THEN ClosingPlace(ts, i + 1, depth + 1)
    ELSE ClosingPlace(ts, i + 1, depth)

RECURSIVE Segments(_, _, _)
\* ts cut at its commas outside parentheses (cur: the segment being read).
Segments(ts, depth, cur) ==
    IF ts = <<>> THEN <<cur>>
    ELSE IF Head(ts).type = "Comma" /\ depth = 0
    THEN <<cur>> \o Segments(Tail(ts), depth, <<>>)
    ELSE Segments(Tail(ts),
                  depth + (CASE Head(ts).type = "LeftParen" -> 1
                             [] Head(ts).type = "RightParen" -> -1
                             [] OTHER -> 0),
                  Append(cur, Head(ts)))

Types(ts) == [i \in 1..Len(ts) |-> ts[i].type]

\* The argument forms whose tree is written down here: x, x o y, x ? y : z,
\* (x), a prefix operator and x, x().
IsArgForm(seg) ==
    \/ Types(seg) = <<"Name">>
    \/ Len(seg) = 3 /\ IsChain(seg, BinaryTypes)
    \/ Types(seg) = <<"Name", "Question", "Name", "Colon", "Name">>
    \/ Types(seg) = <<"LeftParen", "Name", "RightParen">>
    \/ Len(seg) = 2 /\ seg[1].type \in PrefixTypes /\ seg[2].type = "Name"
    \/ Types(seg) = <<"Name", "LeftParen", "RightParen">>

ArgTree(seg) ==
    CASE Types(seg) = <<"Name">> -> NameExpression(seg[1].text)
      [] Len(seg) = 3 /\ IsChain(seg, BinaryTypes) -> LeftNested(seg)
      [] Types(seg) = <<"Name", "Question", "Name", "Colon", "Name">> -> ElseNested(seg)
      [] Types(seg) = <<"LeftParen", "Name", "RightParen">> -> NameExpression(seg[2].text)
      [] Len(seg) = 2 /\ seg[1].type \in PrefixTypes /\ seg[2].type = "Name" ->
            PrefixExpression(seg[1].type, NameExpression(seg[2].text))
      [] Types(seg) = <<"Name", "LeftParen", "RightParen">> ->
            CallExpression(NameExpression(seg[1].text), <<>>)

\* name ( ... ) with the parenthesis closed.
StartsCall(ts) ==
    /\ Len(ts) >= 3
    /\ ts[1].type = "Name"
    /\ ts[2].type = "LeftParen"
    /\ ClosingPlace(ts, 3, 1) > 0

\* The arguments of the call that starts ts, as token sequences.
CallSegments(ts) ==
    LET close == ClosingPlace(ts, 3, 1) IN
    IF close = 3 THEN <<>> ELSE Segments(SubSeq(ts, 3, close - 1), 0, <<>>)

\* The call that starts ts, when its arguments are of the forms above.
CallTree(ts) ==
    LET segs == CallSegments(ts) IN
    CallExpression(NameExpression(ts[1].text), [i \in 1..Len(segs) |-> ArgTree(segs[i])])

\* C6: a parse of `f(args)`, the arguments of the forms above, returns
\* Call(f, args) with no argument for `f()` and otherwise the trees of the
\* arguments in their order in the text; followed by `(x)` it returns
\* Call(Call(f, args), [x]); followed by `+ x` it returns (f(args) + x);
\* followed by `!` it returns (f(args)!); followed by `= x` it panics; and
\* `a(b) + c(d)` returns (a(b) + c(d)).
C6_Call ==
    (Finished /\ StartsCall(TextTokens)
     /\ \A i \in 1..Len(CallSegments(TextTokens)) : IsArgForm(CallSegments(TextTokens)[i]))
    => LET ts == TextTokens
           close == ClosingPlace(ts, 3, 1)
           rest == SubSeq(ts, close + 1, Len(ts))
           call == CallTree(ts)
       IN /\ rest = <<>> => (Returned /\ ret = call)
          /\ Types(rest) = <<"LeftParen", "Name", "RightParen">>
                => (Returned /\ ret = CallExpression(call, <<NameExpression(rest[2].text)>>))
          /\ (Len(rest) = 2 /\ rest[1].type \in BinaryTypes /\ rest[2].type = "Name")
                => (Returned /\ ret = OperatorExpression(call, rest[1].type,
                                                         NameExpression(rest[2].text)))
          /\ Types(rest) = <<"Bang">> => (Returned /\ ret = PostfixExpression(call, "Bang"))
          /\ Types(rest) = <<"Assign", "Name">> => (Panicked /\ error = "AssignTarget")
          /\ Types(rest) = <<"Plus", "Name", "LeftParen", "Name", "RightParen">>
                => (Returned /\ ret = OperatorExpression(call, "Plus",
                        CallExpression(NameExpression(rest[2].text),
                                       <<NameExpression(rest[4].text)>>)))

\* `a(c+d, b)(a)` has returned Call(Call(a, [(c + d), b]), [a]).
C6_Witness ==
    /\ Returned
    /\ text = <<"a", "(", "c", "+", "d", ",", " ", "b", ")", "(", "a", ")">>
    /\ ret = CallExpression(CallExpression(N("a"), <<Op(N("c"), "+", N("d")), N("b")>>),
                            <<N("a")>>)

----------------------------------------------------------------------------
(* C7: grouping                                                            *)

\* Whether the operator r after `x p G` takes G as its left operand: r is of
\* a higher level than p, or both are the right-associative ^.
TakesOperand(p, r) == Level(p) < Level(r) \/ (p = "Caret" /\ r = "Caret")

\* C7: a parse of `(E)`, E of the argument forms, returns the tree of E
\* itself; `(E` with no `)` panics; and a group is one operand of the
\* operators beside it: `x p (y q z)` returns (x p (y q z)) and `(x p y) q z`
\* returns ((x p y) q z) for all binary p and q, `x p (y q z) r w` groups as
\* `x p G r w` does for an operand G, `(o x)!` returns ((o x)!) and
\* `o (x p y)` returns (o (x p y)).
C7_Grouping ==
    Finished =>
        LET ts == TextTokens
            n == Len(ts)
            ty == Types(ts)
            G(i) == OperatorExpression(NameExpression(ts[i].text), ts[i + 1].type,
                                       NameExpression(ts[i + 2].text))
            IsG(i) == ty[i - 1] = "LeftParen" /\ IsChain(SubSeq(ts, i, i + 2), BinaryTypes)
                      /\ ty[i + 3] = "RightParen"
        IN /\ (n >= 3 /\ ty[1] = "LeftParen" /\ ClosingPlace(ts, 2, 1) = n
               /\ IsArgForm(SubSeq(ts, 2, n - 1)))
                => (Returned /\ ret = ArgTree(SubSeq(ts, 2, n - 1)))
           /\ (n >= 2 /\ ty[1] = "LeftParen" /\ IsSimple(SubSeq(ts, 2, n)))
                => (Panicked /\ error = "ExpectedToken")
           /\ (n = 7 /\ ty[1] = "Name" /\ ty[2] \in BinaryTypes /\ IsG(4))
                => (Returned /\ ret = OperatorExpression(NameExpression(ts[1].text), ty[2], G(4)))
           /\ (n = 7 /\ IsG(2) /\ ty[6] \in BinaryTypes /\ ty[7] = "Name")
                => (Returned /\ ret = OperatorExpression(G(2), ty[6], NameExpression(ts[7].text)))
           /\ (n = 9 /\ ty[1] = "Name" /\ ty[2] \in BinaryTypes /\ IsG(4)
               /\ ty[8] \in BinaryTypes /\ ty[9] = "Name")
                => (Returned /\ ret =
                      IF TakesOperand(ty[2], ty[8])
                      THEN OperatorExpression(NameExpression(ts[1].text), ty[2],
                               OperatorExpression(G(4), ty[8], NameExpression(ts[9].text)))
                      ELSE OperatorExpression(
                               OperatorExpression(NameExpression(ts[1].text), ty[2], G(4)),
                               ty[8], NameExpression(ts[9].text)))
           /\ (n = 5 /\ ty[1] = "LeftParen" /\ ty[2] \in PrefixTypes /\ ty[3] = "Name"
               /\ ty[4] = "RightParen" /\ ty[5] = "Bang")
                => (Returned /\ ret = PostfixExpression(
                        PrefixExpression(ty[2], NameExpression(ts[3].text)), "Bang"))
           /\ (n = 6 /\ ty[1] \in PrefixTypes /\ IsG(3))
                => (Returned /\ ret = PrefixExpression(ty[1], G(3)))

\* `a + (b + c) + d` has returned ((a + (b + c)) + d).
C7_Witness ==
    /\ Returned
    /\ text = <<"a", " ", "+", " ", "(", "b", " ", "+", " ", "c", ")", " ", "+", " ", "d">>
    /\ ret = Op(Op(N("a"), "+", Op(N("b"), "+", N("c"))), "+", N("d"))

----------------------------------------------------------------------------
(* C8: an unexpected token is fatal                                        *)

\* The token the parser consumes next.
NextToken == IF read # <<>> THEN read[1] ELSE LexerNext(text, index).token

\* The kinds of token an expression can start with.
Starters == {"Name", "LeftParen", "Plus", "Minus", "Tilde", "Bang"}

\* The kinds of token after which an expression has to start.
NeedOperand ==
    {"Plus", "Minus", "Asterisk", "Slash", "Caret", "Tilde", "Assign", "Question",
     "Colon", "Comma"}

\* The parser is about to start an expression on a token with no prefix
\* parselet, or about to require `)` or `:` with another token next.
Unexpected ==
    \/ Running("start") /\ NextToken.type \notin Starters
    \/ Running("group_inner") /\ NextToken.type # "RightParen"
    \/ Running("cond_then") /\ NextToken.type # "Colon"
    \/ Running("call_arg") /\ NextToken.type \notin {"Comma", "RightParen"}

RECURSIVE Nesting(_, _, _, _)
\* Whether, reading ts from the left, no `close` comes without an earlier
\* unmatched `open` and none stays unmatched (depth: those open so far).
Nesting(ts, open, close, depth) ==
    IF ts = <<>> THEN depth = 0
    ELSE IF Head(ts).type = open THEN Nesting(Tail(ts), open, close, depth + 1)
    ELSE IF Head(ts).type = close
    THEN depth > 0 /\ Nesting(Tail(ts), open, close, depth - 1)
    ELSE Nesting(Tail(ts), open, close, depth)

\* When a tree is returned, every `(` and `?` consumed has its `)` and `:`,
\* the first token consumed starts an expression and so does the token after
\* each operator that needs an operand; a text that does not begin with such
\* a token returns no tree; a panic returns no tree.
C8_State ==
    /\ Returned =>
          /\ Nesting(consumed, "LeftParen", "RightParen", 0)
          /\ Nesting(consumed, "Question", "Colon", 0)
          /\ consumed # <<>>
          /\ consumed[1].type \in Starters
          /\ \A i \in 1..Len(consumed) :
                consumed[i].type \in NeedOperand
                    => (i < Len(consumed) /\ consumed[i + 1].type \in Starters)
    /\ (Finished /\ (TextTokens = <<>> \/ TextTokens[1].type \notin Starters))
          => (Panicked /\ error = "CouldNotParse")
    /\ Panicked => (ret = NoExpr /\ stack = <<>>)

\* A step taken when the next token is unexpected is the panic, and no step
\* follows a panic.
C8_Step ==
    /\ Unexpected => (status' = "panic" /\ ret' = NoExpr)
    /\ ~Panicked

\* C8: a parse that has to start an expression on a token with no prefix
\* parselet (EOF included), or that requires `)` or `:` and finds another
\* token, panics at that step and returns no tree; no returned tree lacks a
\* `)` or `:` for a `(` or `?` that was consumed.
C8_UnexpectedTokenFatal == []C8_State /\ [][C8_Step]_vars

\* `(a + b` has panicked where the `)` was required.
C8_Witness ==
    /\ Panicked
    /\ error = "ExpectedToken"
    /\ text = <<"(", "a", "+", "b">>
    /\ consumed = TextTokens

----------------------------------------------------------------------------
(* C9: an invalid assignment target is fatal                               *)

RECURSIVE AssignNodes(_)
RECURSIVE AssignNodesOfArgs(_)
AssignNodesOfArgs(args) ==
    IF args = <<>> THEN <<>> ELSE AssignNodes(Head(args)) \o AssignNodesOfArgs(Tail(args))

\* The names of the Assign nodes of a tree, one entry per node.
AssignNodes(e) ==
    CASE e.kind = "Name" -> <<>>
      [] e.kind = "Prefix" -> AssignNodes(e.right)
      [] e.kind = "Postfix" -> AssignNodes(e.left)
      [] e.kind = "Operator" -> AssignNodes(e.left) \o AssignNodes(e.right)
      [] e.kind = "Conditional" ->
            AssignNodes(e.condition) \o AssignNodes(e.then_arm) \o AssignNodes(e.else_arm)
      [] e.kind = "Assign" -> <<e.name>> \o AssignNodes(e.right)
      [] e.kind = "Call" -> AssignNodes(e.function) \o AssignNodesOfArgs(e.args)
      [] OTHER -> <<>>

\* The texts given in the claim, by the kinds of their tokens:
\* a + b = c, -a = b, a(b) = c, a! = b, a ? b : c = d.
InvalidTargets ==
    {<<"Name", "Plus", "Name", "Assign", "Name">>,
     <<"Minus", "Name", "Assign", "Name">>,
     <<"Name", "LeftParen", "Name", "RightParen", "Assign", "Name">>,
     <<"Name", "Bang", "Assign", "Name">>,
     <<"Name", "Question", "Name", "Colon", "Name", "Assign", "Name">>}

\* The kinds of token after which a call with minimum precedence below
\* Assignment starts.
OpensFull == {"LeftParen", "Question", "Assign", "Comma"}

\* When a tree is returned, every `=` consumed comes after a `)` or after a
\* name that is the whole left-hand side so far, the tree has one Assign node
\* per `=` consumed, each named by a name token consumed just before an `=`
\* or a `)`; the texts of the claim panic.
C9_State ==
    /\ Returned =>
          /\ \A i \in Places(consumed, "Assign") :
                /\ i >= 2
                /\ \/ consumed[i - 1].type = "RightParen"
                   \/ /\ consumed[i - 1].type = "Name"
                      /\ (i = 2 \/ consumed[i - 2].type \in OpensFull)
          /\ Len(AssignNodes(ret)) = Cardinality(Places(consumed, "Assign"))
          /\ \A k \in 1..Len(AssignNodes(ret)) :
                \E i \in Places(consumed, "Name") :
                    /\ consumed[i].text = AssignNodes(ret)[k]
                    /\ i < Len(consumed)
                    /\ consumed[i + 1].type \in {"Assign", "RightParen"}
    /\ (Finished /\ Types(TextTokens) \in InvalidTargets)
          => (Panicked /\ error = "AssignTarget")

\* The step of the `=` parselet after its right-hand side: it panics when the
\* left-hand subtree is no Name node, and otherwise the node it builds is the
\* Assign of that Name node's identifier and the right-hand side.
C9_Step ==
    Running("assign_right") =>
        IF Top.left.kind = "Name"
        THEN /\ status' = "running"
             /\ Top'.left = [kind |-> "Assign", name |-> Top.left.name, right |-> ret]
        ELSE status' = "panic" /\ error' = "AssignTarget" /\ ret' = NoExpr

\* C9: the `=` parselet panics whenever its left-hand subtree is not a Name
\* node and otherwise builds Assign(name of that node, right-hand side); no
\* returned tree holds an Assign node that did not come from a Name on the
\* left of an `=`, and a + b = c, -a = b, a(b) = c, a! = b, a ? b : c = d panic.
C9_InvalidAssignmentTargetFatal == []C9_State /\ [][C9_Step]_vars

\* `a + b = c` has panicked on its assignment target.
C9_Witness ==
    /\ Panicked
    /\ error = "AssignTarget"
    /\ text = <<"a", "+", "b", "=", "c">>
    /\ consumed = TextTokens

----------------------------------------------------------------------------
(* C10: round trip through the printer                                     *)

\* C10: once the parse of the input has returned a tree, the parse of the
\* printed tree does not panic and does not stop before returning, and the
\* tree it returns is the first tree and prints to the same string.
C10_RoundTrip ==
    phase = 2 =>
        /\ first # NoExpr
        /\ ~Panicked
        /\ status = "running" => ENABLED Next
        /\ Returned => (ret = first /\ PrintExpression(ret) = text)

\* The tree of `a = b + c * d ^ e - f / g` has been printed and parsed back.
C10_Witness == phase = 2 /\ Returned /\ ret = MixedTree /\ first = MixedTree

----------------------------------------------------------------------------
(* The lexer on its own: a Lexer is built on a text and pulled repeatedly  *)

\* Most pulls of a lexer after as many pulls as its text has characters.
MaxPulls == 2

\* Lexer::new(text): index 0, nothing pulled yet.  No parser exists.
LexerInit ==
    /\ text \in Texts(Chars, MaxLen) \cup TestInputs
    /\ index = 0
    /\ read = <<>>
    /\ stack = <<>>
    /\ ret = NoExpr
    /\ status = "lexing"
    /\ error = "none"
    /\ consumed = <<>>
    /\ phase = 0
    /\ first = NoExpr

\* One call of Lexer::next; `consumed` records the tokens it has returned.
LexerPull ==
    /\ status = "lexing"
    /\ Len(consumed) < Len(text) + MaxPulls
    /\ LET n == LexerNext(text, index) IN
          /\ index' = n.index
          /\ consumed' = Append(consumed, n.token)
    /\ UNCHANGED <<text, read, stack, ret, status, error, phase, first>>

LexerSpec == LexerInit /\ [][LexerPull]_vars

----------------------------------------------------------------------------
(* C11: tokenisation                                                       *)

\* Position p of txt begins a token: a punctuator, or the first letter of a
\* run of letters.
BeginsToken(txt, p) ==
    \/ txt[p] \in Punctuators
    \/ /\ txt[p] \in Letters
       /\ p = 1 \/ txt[p - 1] \notin Letters

\* The last position of the maximal run of letters that contains position p.
RunEnd(txt, p) ==
    CHOOSE q \in p..Len(txt) :
        /\ \A k \in p..q : txt[k] \in Letters
        /\ q = Len(txt) \/ txt[q + 1] \notin Letters

\* The token that begins at position p.
TokenAt(txt, p) ==
    IF txt[p] \in Punctuators
    THEN [type |-> PunctuatorType(txt[p]), text |-> <<txt[p]>>]
    ELSE [type |-> "Name", text |-> SubSeq(txt, p, RunEnd(txt, p))]

RECURSIVE Scan(_, _)
\* The tokens of one left-to-right scan of txt from position p on.
Scan(txt, p) ==
    IF p > Len(txt) THEN <<>>
    ELSE (IF BeginsToken(txt, p) THEN <<TokenAt(txt, p)>> ELSE <<>>) \o Scan(txt, p + 1)

\* C11: the tokens a lexer returns are, in order, the tokens of the single
\* left-to-right scan of its text (one token per punctuator character, one
\* Name per maximal run of letters, nothing for any other character), and
\* EOF comes only after all of them.
C11_Tokenisation ==
    LET expected == Scan(text, 1) IN
    \A i \in 1..Len(consumed) :
        IF i <= Len(expected)
        THEN consumed[i] = expected[i]
        ELSE consumed[i].type = "EOF"

\* `a1b` has given Name a, Name b and then EOF.
C11_Witness ==
    /\ text = <<"a", "1", "b">>
    /\ consumed = <<Token("Name", <<"a">>), Token("Name", <<"b">>), EOFToken>>

----------------------------------------------------------------------------
(* C12: EOF padding                                                        *)

\* C12: every pull returns a token, and once the index is at the end of the
\* text every pull returns EOF with empty text and leaves the index where it is.
C12_Step ==
    /\ Len(consumed') = Len(consumed) + 1
    /\ consumed'[Len(consumed')].type # "None"
    /\ index = Len(text) =>
          /\ index' = index
          /\ consumed'[Len(consumed')] = [type |-> "EOF", text |-> <<>>]

\* C12: EOF padding holds at every pull of every lexer.
C12_EOFPadding == [][C12_Step]_vars

\* A text of skipped characters only has given EOF three times in a row, the
\* last two with the index already at the end.
C12_Witness ==
    /\ text = <<" ", "1">>
    /\ index = Len(text)
    /\ consumed = <<EOFToken, EOFToken, EOFToken>>

----------------------------------------------------------------------------
(* C13: the lookahead buffer                                               *)

\* C13: the lookahead buffer never holds more than one token; a peek from
\* any state of a run leaves exactly one token in it and pulls from the lexer
\* only when the buffer is empty, and a consume leaves the buffer empty.
C13_LookaheadBound ==
    /\ Len(read) <= 1
    /\ status = "running" =>
          LET la == LookAhead(text, read, index, 0)
              c == Consume(text, read, index)
          IN /\ Len(la.read) = 1
             /\ read # <<>> => (la.read = read /\ la.index = index)
             /\ c.read = <<>>

\* After `a + b` was parsed, the EOF that ended the loop is still buffered,
\* peeked and never consumed.
C13_Witness ==
    /\ Returned
    /\ phase = 1
    /\ text = <<"a", "+", "b">>
    /\ read = <<EOFToken>>
    /\ Len(consumed) = 3

----------------------------------------------------------------------------
(* C14: match_tok                                                          *)

\* The calls of match_tok about to be made in this state, each with the
\* buffer and lexer index it is made on: CallParselet::parse asks for `)`
\* right after `(` was consumed, and for `,` after each argument.
MatchSites ==
    IF Running("infix") /\ LookAhead(text, read, index, 0).token.type = "LeftParen"
    THEN LET c == Consume(text, read, index) IN
         {[read |-> c.read, index |-> c.index, expected |-> "RightParen"]}
    ELSE IF Running("call_arg")
    THEN {[read |-> read, index |-> index, expected |-> "Comma"]}
    ELSE {}

\* The tokens still to come for a parser with buffer rd and lexer index idx,
\* up to the end of the text.
Pending(rd, idx) ==
    SelectSeq(rd, LAMBDA t : t.type # "EOF") \o TokensFrom(text, idx)

\* The token a parser with these tokens to come inspects next.
Inspected(pending) == IF pending = <<>> THEN EOFToken ELSE Head(pending)

\* The case of a matching kind: true, and exactly the inspected token is consumed.
MatchTokTrueCase(s, m) ==
    LET before == Pending(s.read, s.index) IN
    /\ m.matched
    /\ m.token = Inspected(before)
    /\ Pending(m.read, m.index) = Tail(before)

\* The statement as the claim gives it: on another kind the buffer after the
\* call equals the buffer before the call.
C14_BufferUntouched ==
    \A s \in MatchSites :
        LET m == MatchTok(text, s.read, s.index, s.expected)
            before == Pending(s.read, s.index)
        IN IF Inspected(before).type = s.expected
           THEN MatchTokTrueCase(s, m)
           ELSE /\ ~m.matched
                /\ m.read = s.read
                /\ Consume(text, m.read, m.index).token = Inspected(before)

\* C14: match_tok on a token of the given kind reports true and consumes
\* exactly that token; on another kind it reports false and consumes
\* nothing: the tokens still to come are the same, the next token consumed
\* is the inspected one, and the buffer holds exactly the inspected token
\* (it is unchanged when it was not empty, and has gained the inspected
\* token, pulled by look_ahead(0), when it was empty).
C14_MatchTok ==
    \A s \in MatchSites :
        LET m == MatchTok(text, s.read, s.index, s.expected)
            before == Pending(s.read, s.index)
        IN IF Inspected(before).type = s.expected
           THEN MatchTokTrueCase(s, m)
           ELSE /\ ~m.matched
                /\ Pending(m.read, m.index) = before
                /\ m.read = <<Inspected(before)>>
                /\ s.read # <<>> => m.read = s.read
                /\ Consume(text, m.read, m.index).token = Inspected(before)

\* In `a(b)` match_tok(RightParen) was called on an empty buffer right after
\* `(`, reported false, and left the inspected Name b in the buffer.
C14_Witness ==
    /\ phase = 1
    /\ text = <<"a", "(", "b", ")">>
    /\ consumed = <<Token("Name", <<"a">>), Token("LeftParen", <<"(">>)>>
    /\ read = <<Token("Name", <<"b">>)>>
    /\ Len(stack) = 2
    /\ stack[1].pc = "call_arg"

----------------------------------------------------------------------------
(* C15: termination                                                        *)

\* What a frame still has to do before it consumes a token or returns: a
\* frame waiting for a recursive call has to take the result, test the loop
\* and then consume or return.
FrameWork(f) ==
    CASE f.pc \in {"start", "infix"} -> 1
      [] f.pc = "loop" -> 2
      [] OTHER -> 3

RECURSIVE StackWork(_)
StackWork(stk) == IF stk = <<>> THEN 0 ELSE FrameWork(Head(stk)) + StackWork(Tail(stk))

\* The measure of a running parse: the tokens of the text not yet consumed
\* (EOF not counted) weigh more than anything the frames do between two
\* consumptions.
WorkOf(rd, idx, stk) == 4 * Len(Pending(rd, idx)) + StackWork(stk)

Work == WorkOf(read, index, stack)

\* A parse that is running can take a step.
C15_State == status = "running" => ENABLED Next

\* A step of a parse that leaves it running consumes a token or brings a
\* frame nearer to its next consumption or its return: the measure drops.
C15_Step ==
    (phase' = phase /\ status' = "running") =>
        \A rd \in {read'}, idx \in {index'}, stk \in {stack'} :
            WorkOf(rd, idx, stk) < Work

\* C15: every parse ends after finitely many steps, by returning a tree or by
\* a panic: a running parse is never stuck, and each of its steps lowers a
\* measure that is a natural number, so it cannot run forever on EOF.
C15_Termination == []C15_State /\ [][C15_Step]_vars

\* The empty text has ended in a panic on the first EOF, and the parse of
\* `a + b` has returned leaving EOF in the buffer.
C15_Witness ==
    \/ /\ text = <<>>
       /\ Panicked
       /\ consumed = <<EOFToken>>
    \/ /\ text = <<"a", "+", "b">>
       /\ phase = 1
       /\ Returned
       /\ read = <<EOFToken>>
       /\ Work = 0

----------------------------------------------------------------------------
(* C16: the loop of parse_expression_precedence                            *)

\* The kinds of token that continue an expression: infix, postfix and call.
InfixTypes ==
    {"Assign", "Question", "LeftParen", "Bang", "Plus", "Minus", "Asterisk", "Slash",
     "Caret"}

\* The precedence the grammar gives a kind of InfixTypes.
InfixLevel(tt) ==
    CASE tt = "Assign" -> 1
      [] tt = "Question" -> 2
      [] tt \in {"Plus", "Minus"} -> 3
      [] tt \in {"Asterisk", "Slash"} -> 4
      [] tt = "Caret" -> 5
      [] tt = "Bang" -> 7
      [] tt = "LeftParen" -> 8

\* The loop condition has held and the body is about to run: the inspected
\* token is the one buffered, it continues an expression and binds tighter
\* than the minimum of the call.  The infix lookup has never failed.
C16_State ==
    /\ error # "NoInfixParselet"
    /\ Running("infix") =>
          /\ Len(read) = 1
          /\ read[1] = Inspected(Pending(read, index))
          /\ read[1].type \in InfixTypes
          /\ Top.precedence < InfixLevel(read[1].type)

\* The body of the loop consumes the inspected token and finds its parselet;
\* the loop test on a token that continues no expression consumes nothing,
\* keeps that token as the next one and ends the loop.
C16_Step ==
    /\ Running("infix") =>
          /\ Len(consumed') > Len(consumed)
          /\ consumed'[Len(consumed) + 1] = read[1]
          /\ error' # "NoInfixParselet"
    /\ (Running("loop") /\ Inspected(Pending(read, index)).type \notin InfixTypes) =>
          /\ consumed' = consumed
          /\ read' = <<Inspected(Pending(read, index))>>
          /\ Len(stack') = Len(stack) - 1
          /\ ret' = Top.left

\* C16: whenever the loop condition holds, the token consumed next is the
\* inspected one and it has an infix parselet, so the lookup never fails; a
\* token without infix parselet ends the loop and is not consumed by it.
C16_LoopCondition == []C16_State /\ [][C16_Step]_vars

\* In `a!b` the loop body has consumed `!`, and the loop has then ended on
\* the Name b, which stays in the buffer.
C16_Witness ==
    /\ text = <<"a", "!", "b">>
    /\ phase = 1
    /\ Returned
    /\ read = <<Token("Name", <<"b">>)>>
    /\ consumed = <<Token("Name", <<"a">>), Token("Bang", <<"!">>)>>

----------------------------------------------------------------------------
(* The lexer of the crate root (src/src/lib.rs)                            *)

\* lib.rs TokenType::values, in its order.
RootTokenTypeValues ==
    <<"LeftParen", "RightParen", "Comma", "Assign", "Plus", "Minus", "Asterisk",
      "Slash", "Caret", "Tilde", "Bang", "Question", "Colon", "Name", "EOF">>

\* lib.rs TokenType::punctuator: an Option, here a sequence of at most one
\* character.
RootPunctuator(tt) == IF tt \in {"Name", "EOF"} THEN <<>> ELSE <<Punctuator(tt)>>

\* HashMap::new.
EmptyMap == [k \in {} |-> k]

\* HashMap::insert: the map afterwards and the Option it returns, the value
\* the key had before (None, here <<>>, when the key was absent).
HashMapInsert(map, key, value) ==
    [map |-> [k \in DOMAIN map \cup {key} |-> IF k = key THEN value ELSE map[k]],
     previous |-> IF key \in DOMAIN map THEN <<map[key]>> ELSE <<>>]

RECURSIVE RootRegister(_, _)
\* The loop of lib.rs Lexer::new from the i-th kind on:
\* `punctuators.insert(x, tt).unwrap()` panics when insert returns None.
RootRegister(map, i) ==
    IF i > Len(RootTokenTypeValues) THEN [ok |-> TRUE, punctuators |-> map]
    ELSE LET tt == RootTokenTypeValues[i]
             x == RootPunctuator(tt)
         IN IF x = <<>> THEN RootRegister(map, i + 1)
            ELSE LET r == HashMapInsert(map, x[1], tt) IN
                 IF r.previous = <<>>
                 THEN [ok |-> FALSE, punctuators |-> r.map]
                 ELSE RootRegister(r.map, i + 1)

\* A text on which lib.rs Lexer::new is about to be called.
RootLexerInit ==
    /\ text \in Texts(Chars, MaxLen) \cup TestInputs
    /\ index = 0
    /\ read = <<>>
    /\ stack = <<>>
    /\ ret = NoExpr
    /\ status = "constructing"
    /\ error = "none"
    /\ consumed = <<>>
    /\ phase = 0
    /\ first = NoExpr

\* lib.rs Lexer::new: the registration loop, then the struct with index 0.
RootLexerNew ==
    /\ status = "constructing"
    /\ \E r \in {RootRegister(EmptyMap, 1)} :
          /\ status' = IF r.ok THEN "lexing" ELSE "panic"
          /\ error' = IF r.ok THEN "none" ELSE "UnwrapNone"
    /\ index' = 0
    /\ UNCHANGED <<text, read, stack, ret, consumed, phase, first>>

RootLexerSpec == RootLexerInit /\ [][RootLexerNew]_vars

----------------------------------------------------------------------------
(* C17: the lexer of the crate root never fails                            *)

\* C17: constructing the crate root's lexer from any text succeeds (no
\* panic), so that tokens can be pulled from it.
C17_RootLexerNeverFails == status # "panic"

----------------------------------------------------------------------------
(* C18: what a returned parse has consumed                                 *)

\* The kinds of token that have no infix parselet.
EndingTypes == {"RightParen", "Comma", "Colon", "Tilde", "Name", "EOF"}

\* The token of the text after its first n tokens.
TokenAfter(n) ==
    LET tokens == Scan(text, 1) IN
    IF n < Len(tokens) THEN tokens[n + 1] ELSE EOFToken

\* C18: when the parse returns a tree, the tokens consumed are the first
\* tokens of the text in order, without EOF; the next token has no infix
\* parselet, has been peeked and is left in the buffer, and need not be EOF:
\* `a b` and `a)` return the tree of `a` and leave the rest unconsumed.
C18_ConsumedPrefix ==
    /\ Returned =>
          /\ Len(consumed) <= Len(Scan(text, 1))
          /\ consumed = SubSeq(Scan(text, 1), 1, Len(consumed))
          /\ TokenAfter(Len(consumed)).type \in EndingTypes
          /\ read = <<TokenAfter(Len(consumed))>>
    /\ (phase = 1 /\ Finished /\ text \in {<<"a", " ", "b">>, <<"a", ")">>}) =>
          /\ Returned
          /\ ret = N("a")
          /\ consumed = <<Token("Name", <<"a">>)>>
          /\ TokenAfter(1).type # "EOF"

\* The parse of `a)` has returned the tree of `a`; the `)` is still in the
\* buffer.
C18_Witness ==
    /\ text = <<"a", ")">>
    /\ phase = 1
    /\ Returned
    /\ ret = N("a")
    /\ read = <<Token("RightParen", <<")">>)>>

=============================================================================
